---- MODULE Spec2Model ----
\* A model of src/src/lib.rs: the LegacyTransaction builder, the byte codec
\* (BitcoinSerialize::serialize and TryFrom<&[u8]>) and the CLI argument parser.
\*
\* Integers: TLC's integers are 32-bit signed, so i32 values are modelled
\* exactly, and u32 / u64 field values are sampled below 2^31.  The u64 that
\* parse::<u64>() returns is modelled by its canonical decimal numeral (a
\* sequence of digits), which keeps the full 64-bit width of the overflow test.
EXTENDS Integers, Sequences, FiniteSets, TLC

VARIABLES pc, b, calls, tx, data, origin, res, args, cmd

vars == <<pc, b, calls, tx, data, origin, res, args, cmd>>

\* ---------------------------------------------------------------- bounds

\* Longest chain of builder calls before build().
MaxCalls == 3
\* Longest raw byte buffer handed to try_from.
MaxData == 5
\* Longest run of trailing bytes appended after serialize(t).
MaxExtra == 1
\* Longest CLI argument list.
MaxArgs == 3

\* ---------------------------------------------------------- sample values

Versions == {-2, 16909060}
LockTimes == {7, 168496141}
ByteSet == {0, 1, 128, 255}

ZeroTxid == [i \in 1..32 |-> 0]
OnesTxid == [i \in 1..32 |-> 255]

InputA == [previous_output |-> [txid |-> ZeroTxid, vout |-> 0],
           script_sig |-> <<>>, sequence |-> 2147483647]
InputB == [previous_output |-> [txid |-> OnesTxid, vout |-> 3],
           script_sig |-> <<81, 82>>, sequence |-> 0]
Inputs == {InputA, InputB}

OutputA == [value |-> 50000, script_pubkey |-> <<118, 169, 136>>]
OutputB == [value |-> 0, script_pubkey |-> <<>>]
Outputs == {OutputA, OutputB}

\* ------------------------------------------------------------ result types

Ok(v) == [tag |-> "Ok", value |-> v]
Err(e) == [tag |-> "Err", error |-> e]
\* A Rust panic (an out-of-range slice index, an unwrap of Err).
Panic == [tag |-> "Panic"]

InvalidTransaction == [variant |-> "InvalidTransaction"]
ParseError(msg) == [variant |-> "ParseError", msg |-> msg]

NoBuilder == [tag |-> "NoBuilder"]
NoTx == [tag |-> "NoTx"]
NoResult == [tag |-> "NoResult"]
NoCmd == [tag |-> "NoCmd"]

\* ----------------------------------------------------------------- builder

\* Mutant: the default version is 2 (the current transaction version).
LegacyTransactionBuilder_default_v2 ==
    [version |-> 2, inputs |-> <<>>, outputs |-> <<>>, lock_time |-> 0]

LegacyTransactionBuilder_default ==
    [version |-> 1, inputs |-> <<>>, outputs |-> <<>>, lock_time |-> 0]

LegacyTransactionBuilder_new == LegacyTransactionBuilder_default

LegacyTransaction_builder == LegacyTransactionBuilder_new

version(self, v) == [self EXCEPT !.version = v]

\* Mutant: the input is inserted at the front.
add_input_front(self, input) ==
    [self EXCEPT !.inputs = <<input>> \o self.inputs]

add_input(self, input) == [self EXCEPT !.inputs = Append(self.inputs, input)]

add_output(self, output) == [self EXCEPT !.outputs = Append(self.outputs, output)]

lock_time(self, t) == [self EXCEPT !.lock_time = t]

build(self) ==
    [version |-> self.version, inputs |-> self.inputs,
     outputs |-> self.outputs, lock_time |-> self.lock_time]

\* ------------------------------------------------------------------- codec

\* i32::to_le_bytes / u32::to_le_bytes: the four bytes of the two's-complement
\* value, least significant first (\div is floor division, % is non-negative).
to_le_bytes(v) ==
    <<v % 256, (v \div 256) % 256, (v \div 65536) % 256, (v \div 16777216) % 256>>

\* Mutant: the bytes are read most significant first (i32::from_be_bytes).
from_be_bytes(bs) ==
    bs[4] + 256 * bs[3] + 65536 * bs[2]
      + 16777216 * (IF bs[1] >= 128 THEN bs[1] - 256 ELSE bs[1])

\* i32::from_le_bytes: the top byte carries the sign.
from_le_bytes(bs) ==
    bs[1] + 256 * bs[2] + 65536 * bs[3]
      + 16777216 * (IF bs[4] >= 128 THEN bs[4] - 256 ELSE bs[4])

\* data[lo..hi]: panics when hi exceeds the length.
slice(bytes, lo, hi) ==
    IF hi > Len(bytes) THEN Panic ELSE Ok(SubSeq(bytes, lo + 1, hi))

serialize(self) == to_le_bytes(self.version) \o to_le_bytes(self.lock_time)

\* Mutant: the length guard is off by one, so a 3-byte buffer reaches the slice.
try_from_guard3(bytes) ==
    IF Len(bytes) < 3
    THEN Err(InvalidTransaction)
    ELSE LET s == slice(bytes, 0, 4) IN
         IF s.tag = "Panic"
         THEN Panic
         ELSE Ok(build(version(LegacyTransaction_builder,
                               from_le_bytes(s.value))))

try_from(bytes) ==
    IF Len(bytes) < 4
    THEN Err(InvalidTransaction)
    ELSE LET s == slice(bytes, 0, 4) IN
         IF s.tag = "Panic"
         THEN Panic
         ELSE Ok(build(version(LegacyTransaction_builder,
                               from_le_bytes(s.value))))

\* --------------------------------------------------------------------- CLI

\* A String is modelled as the sequence of its characters.
Digits == <<"0", "1", "2", "3", "4", "5", "6", "7", "8", "9">>

IsDigit(c) == \E d \in 1..10 : Digits[d] = c

\* char::to_digit(10)
to_digit(c) == (CHOOSE d \in 1..10 : Digits[d] = c) - 1

\* u64::MAX = 18446744073709551615, as a decimal numeral.
U64Max == <<1, 8, 4, 4, 6, 7, 4, 4, 0, 7, 3, 7, 0, 9, 5, 5, 1, 6, 1, 5>>

\* m < n on canonical decimal numerals (no leading zero, <<0>> for zero).
RECURSIVE NumLess(_, _)
NumLess(m, n) ==
    IF Len(m) # Len(n) THEN Len(m) < Len(n)
    ELSE IF m = <<>> THEN FALSE
    ELSE IF Head(m) # Head(n) THEN Head(m) < Head(n)
    ELSE NumLess(Tail(m), Tail(n))

\* result.checked_mul(10)?.checked_add(d)? : None on overflow of the u64.
checked_mul10_add(acc, d) ==
    LET r == IF acc = <<0>> THEN <<d>> ELSE Append(acc, d) IN
    IF NumLess(U64Max, r) THEN Panic ELSE Ok(r)

\* The digit loop of u64::from_str_radix(src, 10).
RECURSIVE parse_digits(_, _)
parse_digits(digits, acc) ==
    IF digits = <<>> THEN Ok(acc)
    ELSE IF ~IsDigit(Head(digits)) THEN Err("InvalidDigit")
    ELSE LET r == checked_mul10_add(acc, to_digit(Head(digits))) IN
         IF r.tag # "Ok" THEN Err("PosOverflow")
         ELSE parse_digits(Tail(digits), r.value)

\* Mutant: the amount is parsed as a signed type, which drops a leading '-'.
parse_i64(src) ==
    IF src = <<>> THEN Err("Empty")
    ELSE IF Len(src) = 1 /\ src[1] \in {"+", "-"} THEN Err("InvalidDigit")
    ELSE IF src[1] \in {"+", "-"} THEN parse_digits(Tail(src), <<0>>)
    ELSE parse_digits(src, <<0>>)

\* str::parse::<u64>(): a leading '+' is dropped, a '-' is not a digit of an
\* unsigned type.
parse_u64(src) ==
    IF src = <<>> THEN Err("Empty")
    ELSE IF Len(src) = 1 /\ src[1] \in {"+", "-"} THEN Err("InvalidDigit")
    ELSE IF src[1] = "+" THEN parse_digits(Tail(src), <<0>>)
    ELSE parse_digits(src, <<0>>)

StrSend == <<"s", "e", "n", "d">>
StrBalance == <<"b", "a", "l", "a", "n", "c", "e">>

Send(amount, address) == [tag |-> "Send", amount |-> amount, address |-> address]
Balance == [tag |-> "Balance"]

\* impl TryFrom<&[String]> for CliCommand
CliCommand_try_from(a) ==
    IF a = <<>> THEN Err(ParseError("Not enough parameters"))
    ELSE IF a[1] = StrSend THEN
         IF Len(a) < 2 THEN Err(ParseError("Not enough arguments"))
         ELSE IF Len(a) < 3 THEN Err(ParseError("Not enough arguments"))
         ELSE LET amount == parse_u64(a[2]) IN
              IF amount.tag # "Ok" THEN Err(ParseError("Invalid amount"))
              ELSE Ok(Send(amount.value, a[3]))
    ELSE IF a[1] = StrBalance THEN Ok(Balance)
    ELSE Err(ParseError(<<"Unknown command: ", a[1]>>))

parse_cli_args(a) == CliCommand_try_from(a)

\* The argument strings tried.
ArgStrings ==
    { StrSend, StrBalance,
      <<"f", "l", "y">>,
      <<>>,
      <<"1", "0", "0">>,
      <<"-", "5">>,
      <<"+", "7">>,
      <<"0", "0", "7">>,
      <<"+">>,
      <<"1", "A", "2", "b", "3", "C">>,
      <<"1", "8", "4", "4", "6", "7", "4", "4", "0", "7", "3", "7", "0", "9",
        "5", "5", "1", "6", "1", "5">>,
      <<"1", "8", "4", "4", "6", "7", "4", "4", "0", "7", "3", "7", "0", "9",
        "5", "5", "1", "6", "1", "6">>,
      <<"9", "9", "9", "9", "9", "9", "9", "9", "9", "9", "9", "9", "9", "9",
        "9", "9", "9", "9", "9", "9", "9">> }

\* ------------------------------------------------------------ state machine

Init ==
    /\ pc = "start"
    /\ b = NoBuilder
    /\ calls = <<>>
    /\ tx = NoTx
    /\ data = <<>>
    /\ origin = "none"
    /\ res = NoResult
    /\ args = <<>>
    /\ cmd = NoCmd

\* LegacyTransaction::builder(), LegacyTransactionBuilder::new() or ::default().
NewBuilder ==
    /\ pc = "start"
    /\ \E ctor \in {LegacyTransaction_builder, LegacyTransactionBuilder_new,
                    LegacyTransactionBuilder_default} : b' = ctor
    /\ pc' = "building"
    /\ UNCHANGED <<calls, tx, data, origin, res, args, cmd>>

\* One chained call on the builder; calls is the history of the chain.
Version ==
    /\ pc = "building" /\ Len(calls) < MaxCalls
    /\ \E v \in Versions :
          /\ b' = version(b, v)
          /\ calls' = Append(calls, [op |-> "version", arg |-> v])
    /\ UNCHANGED <<pc, tx, data, origin, res, args, cmd>>

AddInput ==
    /\ pc = "building" /\ Len(calls) < MaxCalls
    /\ \E i \in Inputs :
          /\ b' = add_input(b, i)
          /\ calls' = Append(calls, [op |-> "add_input", arg |-> i])
    /\ UNCHANGED <<pc, tx, data, origin, res, args, cmd>>

AddOutput ==
    /\ pc = "building" /\ Len(calls) < MaxCalls
    /\ \E o \in Outputs :
          /\ b' = add_output(b, o)
          /\ calls' = Append(calls, [op |-> "add_output", arg |-> o])
    /\ UNCHANGED <<pc, tx, data, origin, res, args, cmd>>

LockTime ==
    /\ pc = "building" /\ Len(calls) < MaxCalls
    /\ \E t \in LockTimes :
          /\ b' = lock_time(b, t)
          /\ calls' = Append(calls, [op |-> "lock_time", arg |-> t])
    /\ UNCHANGED <<pc, tx, data, origin, res, args, cmd>>

\* build() consumes the builder.
Build ==
    /\ pc = "building"
    /\ tx' = build(b)
    /\ b' = NoBuilder
    /\ pc' = "built"
    /\ UNCHANGED <<calls, data, origin, res, args, cmd>>

Serialize ==
    /\ pc = "built"
    /\ data' = serialize(tx)
    /\ origin' = "serialized"
    /\ pc' = "encoded"
    /\ UNCHANGED <<b, calls, tx, res, args, cmd>>

BoundedSeq(S, n) == UNION {[1..k -> S] : k \in 0..n}

\* The caller hands over only the first k bytes of serialize(t).
Truncate ==
    /\ pc = "encoded" /\ origin = "serialized"
    /\ \E k \in 0..(Len(data) - 1) : data' = SubSeq(data, 1, k)
    /\ origin' = "truncated"
    /\ UNCHANGED <<pc, b, calls, tx, res, args, cmd>>

\* The caller hands over serialize(t) followed by a non-empty run of bytes.
Extend ==
    /\ pc = "encoded" /\ origin = "serialized"
    /\ \E e \in BoundedSeq(ByteSet, MaxExtra) \ {<<>>} : data' = data \o e
    /\ origin' = "extended"
    /\ UNCHANGED <<pc, b, calls, tx, res, args, cmd>>

\* The caller hands over an arbitrary buffer.
Receive ==
    /\ pc = "start"
    /\ \E bs \in BoundedSeq(ByteSet, MaxData) : data' = bs
    /\ origin' = "raw"
    /\ pc' = "encoded"
    /\ UNCHANGED <<b, calls, tx, res, args, cmd>>

Decode ==
    /\ pc = "encoded"
    /\ res' = try_from(data)
    /\ pc' = "decoded"
    /\ UNCHANGED <<b, calls, tx, data, origin, args, cmd>>

\* One run of the command-line parser on an argument list.
ParseCliArgs ==
    /\ cmd = NoCmd
    /\ \E a \in BoundedSeq(ArgStrings, MaxArgs) :
          /\ args' = a
          /\ cmd' = parse_cli_args(a)
    /\ UNCHANGED <<pc, b, calls, tx, data, origin, res>>

Next ==
    \/ NewBuilder
    \/ Version
    \/ AddInput
    \/ AddOutput
    \/ LockTime
    \/ Build
    \/ Serialize
    \/ Truncate
    \/ Extend
    \/ Receive
    \/ Decode

Spec == Init /\ [][Next]_vars

CliNext == ParseCliArgs

SpecCli == Init /\ [][CliNext]_vars

\* ------------------------------------------------------------------ claims

\* The arguments of the calls of one builder method, in call order.
RECURSIVE ArgsOf(_, _)
ArgsOf(op, cs) ==
    IF cs = <<>> THEN <<>>
    ELSE IF Head(cs).op = op THEN <<Head(cs).arg>> \o ArgsOf(op, Tail(cs))
    ELSE ArgsOf(op, Tail(cs))

\* The argument of the last call of one builder method, or a default.
LastArgOf(op, cs, default) ==
    LET as == ArgsOf(op, cs) IN IF as = <<>> THEN default ELSE as[Len(as)]

Decoded(from) == pc = "decoded" /\ origin = from

\* C1 (round-trip law): decoding serialize(t) succeeds and yields a
\* transaction whose version, inputs, outputs and lock_time equal those of t.
C1_RoundTrip ==
    Decoded("serialized") =>
        /\ res.tag = "Ok"
        /\ res.value.version = tx.version
        /\ res.value.inputs = tx.inputs
        /\ res.value.outputs = tx.outputs
        /\ res.value.lock_time = tx.lock_time

\* C2 (truncation safety): decoding the first k bytes of serialize(t), for any
\* k below its length, returns an error (no success, no panic).
C2_TruncationFails ==
    Decoded("truncated") => res.tag = "Err"

\* C3 (exactness): decoding serialize(t) followed by a non-empty run of bytes
\* returns an error.
C3_TrailingRejected ==
    Decoded("extended") => res.tag = "Err"

\* C4 (empty collections): a transaction with no inputs and no outputs decodes
\* from its serialization with the same version and lock_time, and with empty
\* inputs and outputs.
C4_EmptyCollections ==
    (Decoded("serialized") /\ tx.inputs = <<>> /\ tx.outputs = <<>>) =>
        /\ res.tag = "Ok"
        /\ res.value.version = tx.version
        /\ res.value.lock_time = tx.lock_time
        /\ res.value.inputs = <<>>
        /\ res.value.outputs = <<>>

\* C5: a buffer of 0, 1, 2 or 3 bytes decodes to Err(InvalidTransaction), never
\* to another error variant, a success or a panic.
C5_ShortIsInvalidTransaction ==
    (pc = "decoded" /\ Len(data) < 4) =>
        res = [tag |-> "Err", error |-> [variant |-> "InvalidTransaction"]]

C5_Witness ==
    /\ pc = "decoded"
    /\ Len(data) = 3
    /\ res.tag = "Err"

\* The shortest encoding the required layout allows, with length prefixes of
\* the minimum width of 4 bytes: version, input count, the inputs (txid, vout,
\* script_sig prefix and bytes, sequence), output count, the outputs (value,
\* script_pubkey prefix and bytes), lock_time.
RECURSIVE InputsSize(_)
InputsSize(ins) ==
    IF ins = <<>> THEN 0
    ELSE 32 + 4 + 4 + Len(Head(ins).script_sig) + 4 + InputsSize(Tail(ins))

RECURSIVE OutputsSize(_)
OutputsSize(outs) ==
    IF outs = <<>> THEN 0
    ELSE 8 + 4 + Len(Head(outs).script_pubkey) + OutputsSize(Tail(outs))

LayoutMinLen(t) == 4 + 4 + InputsSize(t.inputs) + 4 + OutputsSize(t.outputs) + 4

\* C6: serialize(t) is version (4 bytes LE) first, then the length-prefixed
\* inputs and outputs in order, then lock_time (4 bytes LE) last; transactions
\* that differ in their inputs or outputs serialize differently.
C6_Layout ==
    (pc = "encoded" /\ origin = "serialized") =>
        /\ SubSeq(data, 1, 4) = to_le_bytes(tx.version)
        /\ SubSeq(data, Len(data) - 3, Len(data)) = to_le_bytes(tx.lock_time)
        /\ Len(data) >= LayoutMinLen(tx)
        /\ \A ins \in BoundedSeq(Inputs, 1), outs \in BoundedSeq(Outputs, 1) :
              (ins # tx.inputs \/ outs # tx.outputs) =>
                  serialize([tx EXCEPT !.inputs = ins, !.outputs = outs]) # data

\* C7: a freshly created builder has version 1, no inputs, no outputs and
\* lock_time 0, and building it at once yields a transaction with those fields.
C7_FreshBuilder ==
    /\ (pc = "building" /\ calls = <<>>) =>
          b = [version |-> 1, inputs |-> <<>>, outputs |-> <<>>, lock_time |-> 0]
    /\ (pc = "built" /\ calls = <<>>) =>
          tx = [version |-> 1, inputs |-> <<>>, outputs |-> <<>>, lock_time |-> 0]

C7_Witness ==
    /\ pc = "built"
    /\ calls = <<>>
    /\ tx.version = 1

\* The fields the chain of calls cs must have produced.
Chained(cs) ==
    [version |-> LastArgOf("version", cs, 1),
     inputs |-> ArgsOf("add_input", cs),
     outputs |-> ArgsOf("add_output", cs),
     lock_time |-> LastArgOf("lock_time", cs, 0)]

\* A step of the chain changes only the field of the method called, and
\* build() copies the four fields.
C8_Frame ==
    /\ (pc = "building" /\ pc' = "building") =>
          LET op == calls'[Len(calls')].op IN
          /\ calls' # calls
          /\ op # "version" => b'.version = b.version
          /\ op # "add_input" => b'.inputs = b.inputs
          /\ op # "add_output" => b'.outputs = b.outputs
          /\ op # "lock_time" => b'.lock_time = b.lock_time
    /\ (pc = "building" /\ pc' = "built") =>
          /\ tx'.version = b.version
          /\ tx'.inputs = b.inputs
          /\ tx'.outputs = b.outputs
          /\ tx'.lock_time = b.lock_time

C8_State ==
    /\ pc = "building" => (b = Chained(calls) /\ ENABLED Build)
    /\ pc = "built" => tx = Chained(calls)

\* C8: after any chain of version, add_input, add_output and lock_time calls
\* and build(), the inputs and outputs are the add_input and add_output
\* arguments in call order, version and lock_time are those of the last such
\* call (1 and 0 if none); each call changes only its own field; build() never
\* fails.
C8_BuilderChain == []C8_State /\ [][C8_Frame]_vars

C8_Witness ==
    /\ pc = "built"
    /\ Len(tx.inputs) = 2
    /\ tx.inputs[1] # tx.inputs[2]
    /\ tx.version # 1
    /\ calls[2].op = "version"

\* The text of an unsigned 64-bit integer: an optional '+', then one or more
\* decimal digits whose value is at most u64::MAX.
Unsigned(s) == IF s # <<>> /\ s[1] = "+" THEN Tail(s) ELSE s
Canonical(ds) ==
    LET nz == {i \in 1..Len(ds) : ds[i] # "0"} IN
    IF nz = {} THEN <<0>>
    ELSE LET first == CHOOSE i \in nz : \A j \in nz : i <= j IN
         [k \in 1..(Len(ds) - first + 1) |-> to_digit(ds[first + k - 1])]
IsU64Text(s) ==
    /\ Unsigned(s) # <<>>
    /\ \A i \in 1..Len(Unsigned(s)) : IsDigit(Unsigned(s)[i])
    /\ ~NumLess(U64Max, Canonical(Unsigned(s)))

IsParseError(r) == r.tag = "Err" /\ r.error.variant = "ParseError"

\* C9: "send" with an amount that is the text of a u64 and an address yields
\* Send with that amount and address; "balance" yields Balance; an empty list,
\* "send" without amount or address, "send" with any other amount, and any
\* other first argument yield Err(ParseError); the parser never panics.
C9_CliClassification ==
    cmd # NoCmd =>
        IF args = <<>> THEN IsParseError(cmd)
        ELSE IF args[1] = <<"s", "e", "n", "d">> THEN
             IF Len(args) >= 3 /\ IsU64Text(args[2])
             THEN cmd = Ok(Send(Canonical(Unsigned(args[2])), args[3]))
             ELSE IsParseError(cmd)
        ELSE IF args[1] = <<"b", "a", "l", "a", "n", "c", "e">>
             THEN cmd = Ok(Balance)
        ELSE IsParseError(cmd)

C9_Witness ==
    /\ cmd = Ok(Send(<<1, 0, 0>>, <<"1", "A", "2", "b", "3", "C">>))
    /\ args[2] = <<"1", "0", "0">>

====
